---- MODULE Spec2Model ----
(***************************************************************************)
(* A model of githubgql.graphql (src/githubgql/githubgql.py): one GraphQL  *)
(* POST with retry and backoff, followed by the recursive depagination of  *)
(* the connections a cursor tree names.  The recursion of the Python code  *)
(* is an explicit stack of frames; the GitHub endpoint is a deterministic  *)
(* paged server whose HTTP status is chosen freely on every attempt.       *)
(***************************************************************************)
EXTENDS Integers, Sequences, FiniteSets, TLC

\* ------------------------------------------------------------- bounds
\* Largest number of issues the server holds.
MaxIssues == 3
\* Largest number of pull requests, of timeline items of one pull request,
\* and of comments of one timeline item.
MaxItems == 2
\* Largest page size (the `first:` argument of the query).
MaxPageSize == 2
\* Largest value of the max_retries argument that is enumerated.
MaxRetriesArg == 3
\* Largest number of replies of one top-level call that are not a clean 200.
MaxFaults == 3

\* ------------------------------------------------------------- JSON values
\* A decoded JSON value is a tagged record, so that a dict, a list and a
\* scalar can be told apart the way Python's obj[name] tells them apart.
JNull == [t |-> "null"]
JBool(b) == [t |-> "bool", b |-> b]
JInt(n) == [t |-> "int", n |-> n]
\* A cursor string; s is the offset the opaque string stands for.
JStr(s) == [t |-> "str", s |-> s]
JMap(m) == [t |-> "map", m |-> m]
JList(l) == [t |-> "list", l |-> l]
\* The outcome of a subscription that raises KeyError/TypeError/IndexError.
KeyError == [t |-> "KeyError"]

\* A path step: a dict key or a (0-based) list index.
Key(s) == [k |-> "key", s |-> s]
Idx(i) == [k |-> "idx", i |-> i]

\* obj[name]
GetItem(obj, name) ==
    IF obj.t = "map" /\ name.k = "key"
    THEN IF name.s \in DOMAIN obj.m THEN obj.m[name.s] ELSE KeyError
    ELSE IF obj.t = "list" /\ name.k = "idx"
    THEN IF name.i + 1 \in DOMAIN obj.l THEN obj.l[name.i + 1] ELSE KeyError
    ELSE KeyError

\* for name in path: obj = obj[name]
RECURSIVE Walk(_, _)
Walk(obj, path) ==
    IF path = <<>> THEN obj
    ELSE IF obj.t = "KeyError" THEN KeyError
    ELSE Walk(GetItem(obj, Head(path)), Tail(path))

\* The tree `root` after the object reached by `path` was mutated into `val`
\* (Python mutates the dict it reached in place; the tree sees the change).
RECURSIVE SetAt(_, _, _)
SetAt(root, path, val) ==
    IF path = <<>> THEN val
    ELSE LET name == Head(path) IN
         IF root.t = "map"
         THEN JMap([root.m EXCEPT ![name.s] = SetAt(root.m[name.s], Tail(path), val)])
         ELSE JList([root.l EXCEPT ![name.i + 1] = SetAt(root.l[name.i + 1], Tail(path), val)])

\* obj.pop(key): the dict without the key.
DictPop(obj, key) == JMap([x \in (DOMAIN obj.m) \ {key} |-> obj.m[x]])
\* obj[key] = val
DictSet(obj, key, val) ==
    JMap([x \in (DOMAIN obj.m) \cup {key} |-> IF x = key THEN val ELSE obj.m[x]])

\* ------------------------------------------------------------- the server
\* The repository the endpoint serves: db.issues issues, one pull request
\* per entry of db.prs (the entry is the number of its timeline items),
\* db.comments comments under every timeline item, db.first elements a page
\* of a top-level connection and db.inner a page of a nested one;
\* during one top-level call at most db.outage of its replies are faults.
Databases ==
    { [issues |-> i, prs |-> p, comments |-> c, first |-> f, inner |-> n,
       outage |-> o] :
        i \in 0..MaxIssues,
        p \in UNION { [1..n -> 0..MaxItems] : n \in 0..MaxItems },
        c \in 0..MaxItems, f \in 1..MaxPageSize, n \in 1..MaxPageSize,
        o \in {1, MaxFaults} }

\* The value of `after: $name` the server sees: the offset of the cursor
\* string, 0 when the variable is unbound or null.
After(vars, name) ==
    IF name \in DOMAIN vars /\ vars[name].t = "str" THEN vars[name].s ELSE 0

Min(a, b) == IF a < b THEN a ELSE b

\* The number of elements on the page that follows offset `after` of a
\* connection of n elements served `first` a page.
PageLen(n, after, first) == IF after < n THEN Min(first, n - after) ELSE 0

\* A connection object, pageInfo { endCursor hasNextPage } and nodes, for the
\* page after offset `after` of a connection of n elements; nodes are the
\* elements on that page.
Connection(n, after, first, nodes) ==
    JMap([pageInfo |->
            JMap([endCursor |-> IF after < n
                                THEN JStr(after + PageLen(n, after, first))
                                ELSE JNull,
                  hasNextPage |-> JBool(after + first < n)]),
          nodes |-> JList(nodes)])

IssueElem(k) == JMap([number |-> JInt(k)])
CommentElem(p, j, k) == JMap([pr |-> JInt(p), item |-> JInt(j), id |-> JInt(k)])
\* comments(after: $cursor4) of timeline item j of pull request p.
Comments(d, vars, p, j) ==
    LET after == After(vars, "cursor4") IN
    Connection(d.comments, after, d.inner,
               [k \in 1..PageLen(d.comments, after, d.inner) |->
                    CommentElem(p, j, after + k)])
TimelineElem(d, vars, p, j) ==
    JMap([pr |-> JInt(p), item |-> JInt(j), comments |-> Comments(d, vars, p, j)])
\* timelineItems(after: $cursor3) of pull request p.
TimelineItems(d, vars, p) ==
    LET after == After(vars, "cursor3") IN
    Connection(d.prs[p], after, d.inner,
               [j \in 1..PageLen(d.prs[p], after, d.inner) |->
                    TimelineElem(d, vars, p, after + j)])
PullRequestElem(d, vars, p) ==
    JMap([number |-> JInt(p), timelineItems |-> TimelineItems(d, vars, p)])
\* issues(after: $cursor1) and pullRequests(after: $cursor2) of the repository.
Issues(d, vars) ==
    LET after == After(vars, "cursor1") IN
    Connection(d.issues, after, d.first,
               [k \in 1..PageLen(d.issues, after, d.first) |-> IssueElem(after + k)])
PullRequests(d, vars) ==
    LET after == After(vars, "cursor2") IN
    Connection(Len(d.prs), after, d.first,
               [p \in 1..PageLen(Len(d.prs), after, d.first) |->
                    PullRequestElem(d, vars, after + p)])

\* The `data` of the reply to the query of the header comment (with one more
\* nested connection under the timeline items) for the variable bindings vars.
ServerData(d, vars) ==
    JMap([repository |-> JMap([issues |-> Issues(d, vars),
                               pullRequests |-> PullRequests(d, vars)])])

\* The HTTP statuses the endpoint answers with: 200, the six of retry_codes,
\* and two the client does not retry (a success other than 200, a 404).
Statuses == {200, 201, 403, 404, 429, 500, 502, 503, 504}
ErrorsArray == JList(<<JMap([message |-> JStr(0)])>>)

\* Every reply the endpoint may give to one POST with bindings vars: the clean
\* 200, a 200 whose body has `errors` (with `data` null or populated), and
\* every other status.  A reply that is not the clean 200 is a fault.
CleanReply(d, vars) ==
    [status_code |-> 200, body |-> JMap([data |-> ServerData(d, vars)])]
FaultReplies(d, vars) ==
    { [status_code |-> 200, body |-> JMap([data |-> dt, errors |-> ErrorsArray])] :
        dt \in {JNull, ServerData(d, vars)} }
    \cup { [status_code |-> st, body |-> JMap([message |-> JStr(0)])] :
        st \in Statuses \ {200} }

\* ------------------------------------------------------------- the query
\* A query text is a sequence of lexemes: the words "mutation", "query" and
\* "subscription", "(" , "{", " " (whitespace) and "x" (any other text).
Queries ==
    { <<"query", "(", "x">>,
      <<" ", "query", "(", "x", " ">>,
      <<"{", "x">>,
      <<"subscription", "{", "x">>,
      <<"mutation", "(", "x", "(", "x">>,
      <<" ", "mutation", "(", "x">>,
      <<"mutation", " ", "(", "x">>,
      <<"mutation", " ", "{", "x">>,
      <<"mutation", "{", "x">> }

\* query.strip()
RECURSIVE LStrip(_)
LStrip(q) == IF q # <<>> /\ Head(q) = " " THEN LStrip(Tail(q)) ELSE q
RECURSIVE RStrip(_)
RStrip(q) ==
    IF q # <<>> /\ q[Len(q)] = " " THEN RStrip(SubSeq(q, 1, Len(q) - 1)) ELSE q
Strip(q) == RStrip(LStrip(q))

\* query.split("(")[0]
RECURSIVE SplitHead(_)
SplitHead(q) ==
    IF q = <<>> \/ Head(q) = "(" THEN <<>> ELSE <<Head(q)>> \o SplitHead(Tail(q))

IsMutationByFirstWord(q) == LStrip(q) # <<>> /\ Head(LStrip(q)) = "mutation"
\* Line 111: the retry loop is skipped when this holds.
IsMutation(q) == SplitHead(q) = <<"mutation">>

\* ------------------------------------------------------------- cursor trees
\* One entry of a cursors dict, in iteration order: the cursor variable, its
\* node (short: still the bare path list), and the entries of node['next'].
Cursor(name, short, path, hasNext, next) ==
    [name |-> name, short |-> short, path |-> path, hasNext |-> hasNext, next |-> next]

IssuesPath == <<Key("repository"), Key("issues")>>
PullRequestsPath == <<Key("repository"), Key("pullRequests")>>
TimelinePath == <<Key("timelineItems")>>
CommentsPath == <<Key("comments")>>

TreeIssues == <<Cursor("cursor1", TRUE, IssuesPath, FALSE, <<>>)>>
TreeSiblings ==
    <<Cursor("cursor1", FALSE, IssuesPath, FALSE, <<>>),
      Cursor("cursor2", TRUE, PullRequestsPath, FALSE, <<>>)>>
TreeSiblingsSwapped ==
    <<Cursor("cursor2", TRUE, PullRequestsPath, FALSE, <<>>),
      Cursor("cursor1", FALSE, IssuesPath, FALSE, <<>>)>>
TreeNested ==
    <<Cursor("cursor2", FALSE, PullRequestsPath, TRUE,
             <<Cursor("cursor3", TRUE, TimelinePath, FALSE, <<>>)>>)>>
\* The cursors of the header comment (lines 48-60).
TreeExample ==
    <<Cursor("cursor1", FALSE, IssuesPath, FALSE, <<>>),
      Cursor("cursor2", FALSE, PullRequestsPath, TRUE,
             <<Cursor("cursor3", FALSE, TimelinePath, FALSE, <<>>)>>)>>
TreeDeep ==
    <<Cursor("cursor2", FALSE, PullRequestsPath, TRUE,
             <<Cursor("cursor3", FALSE, TimelinePath, TRUE,
                      <<Cursor("cursor4", TRUE, CommentsPath, FALSE, <<>>)>>)>>)>>

\* The `cursors` argument: None, or a dict.
NoCursors == [given |-> FALSE, entries |-> <<>>]
Cursors(entries) == [given |-> TRUE, entries |-> entries]

\* The `token` argument: None, or a string (its characters).
NoToken == [given |-> FALSE, text |-> <<>>]
Token(text) == [given |-> TRUE, text |-> text]

\* ------------------------------------------------------------- state
VARIABLES
    query,        \* the query argument (the same in every frame)
    token,        \* the token argument
    max_retries,  \* the max_retries argument
    cursors,      \* the cursors argument of the top-level call, as passed
    db,           \* what the endpoint serves
    stack,        \* the frames of graphql, the running one last
    result,       \* what the top-level call returned or raised
    log,          \* every POST and every sleep so far, in order
    faults,       \* the number of replies so far that were not a clean 200
    exec          \* of the latest transport execution: the POSTs sent, and how
                  \* many replies came before the first one outside Retryable

args == <<query, token, max_retries, cursors, db>>
vars == <<query, token, max_retries, cursors, db, stack, result, log, faults, exec>>

FrameDepaginating(cs, prev_path, kwargs) ==
    [pc |-> "start", cursors |-> IF cs.given THEN cs ELSE Cursors(TreeIssues),
     prev_path |-> prev_path, kwargs |-> kwargs,
     reply |-> [status_code |-> 0, body |-> JNull], attempted_retries |-> 0,
     data |-> JNull, ci |-> 1, pi |-> JNull, n |-> 0, i |-> 0, next |-> JNull]
\* A frame of graphql on entry: its arguments and its locals, not yet set.
Frame(cs, prev_path, kwargs) ==
    [pc |-> "start", cursors |-> cs, prev_path |-> prev_path, kwargs |-> kwargs,
     reply |-> [status_code |-> 0, body |-> JNull], attempted_retries |-> 0,
     data |-> JNull, ci |-> 1, pi |-> JNull, n |-> 0, i |-> 0, next |-> JNull]

Top == stack[Len(stack)]
Running == stack # <<>>
SetTop(f) == [stack EXCEPT ![Len(stack)] = f]

\* An exception leaves every frame: graphql has no try.
Raised(kind, value) ==
    /\ stack' = <<>>
    /\ result' = [kind |-> kind, value |-> value]

ReturnedWithBindings(value) ==
    IF Len(stack) = 1
    THEN /\ stack' = <<>>
         /\ result' = [kind |-> "returned", value |-> value]
    ELSE /\ stack' = [SubSeq(stack, 1, Len(stack) - 1)
                        EXCEPT ![Len(stack) - 1].next = value,
                               ![Len(stack) - 1].kwargs = Top.kwargs]
         /\ result' = result

\* `return value`: to the caller's `next`, or out of the top-level call.
Returned(value) ==
    IF Len(stack) = 1
    THEN /\ stack' = <<>>
         /\ result' = [kind |-> "returned", value |-> value]
    ELSE /\ stack' = [SubSeq(stack, 1, Len(stack) - 1)
                        EXCEPT ![Len(stack) - 1].next = value]
         /\ result' = result

\* ------------------------------------------------------------- transport
\* Line 89: the JSON body of the POST.
Params(f) == [query |-> Strip(query), variables |-> f.kwargs]
PostEvent(f) == [e |-> "post", params |-> Params(f), attempt |-> f.attempted_retries]
SleepEvent(b) == [e |-> "sleep", backoff |-> b]

TokenNotNone == token.given
\* Line 93.
TokenOk == token.given /\ Len(token.text) > 0

\* Line 107.
retry_codes == {403, 429, 500, 502, 503, 504}

BackoffFromOne(attempted_retries) == 2 ^ (attempted_retries + 1)
\* Line 113, in half seconds: 2 ** (attempted_retries - 1) is 0.5 for 0.
Backoff(attempted_retries) == 2 ^ attempted_retries

ShouldRetryOnceMore(f) ==
    /\ ~IsMutation(query)
    /\ f.reply.status_code \in retry_codes
    /\ f.attempted_retries <= max_retries
ShouldRetryWithinCallBudget(f) ==
    /\ ~IsMutation(query)
    /\ f.reply.status_code \in retry_codes
    /\ Cardinality({ k \in DOMAIN log : log[k].e = "sleep" }) < max_retries
\* Lines 111-112: whether the loop body runs once more.
ShouldRetry(f) ==
    /\ ~IsMutation(query)
    /\ f.reply.status_code \in retry_codes
    /\ f.attempted_retries < max_retries

\* requests.post: the endpoint answers; at most db.outage faults a call.
Replies(f) ==
    {CleanReply(db, f.kwargs)}
    \cup (IF faults < db.outage THEN FaultReplies(db, f.kwargs) ELSE {})
HasErrorsAndNoData(body) == "errors" \in DOMAIN body.m /\ body.m["data"] = JNull
\* Line 124: "errors" in data
HasErrors(body) == "errors" \in DOMAIN body.m
IsFault(r) == r.status_code # 200 \/ HasErrors(r.body)

\* The statuses the endpoint documents as transient.
Retryable == {403, 429, 500, 502, 503, 504}
\* The record of one execution after one more reply r has come.
Received(e, r) ==
    [attempts |-> e.attempts + 1,
     leading |-> IF e.leading = e.attempts /\ r.status_code \in Retryable
                 THEN e.leading + 1 ELSE e.leading]

\* Lines 88-104: entry of graphql up to the first POST.
Enter ==
    /\ Running
    /\ Top.pc = "start"
    /\ IF ~TokenOk
       THEN /\ Raised("TokenError", JNull)
            /\ UNCHANGED <<log, faults, exec>>
       ELSE \E r \in Replies(Top) :
            /\ stack' = SetTop([Top EXCEPT !.reply = r, !.attempted_retries = 0,
                                           !.pc = "retry"])
            /\ log' = Append(log, PostEvent(Top))
            /\ faults' = faults + (IF IsFault(r) THEN 1 ELSE 0)
            /\ exec' = Received([attempts |-> 0, leading |-> 0], r)
            /\ result' = result
    /\ UNCHANGED args

\* Lines 112-117: one iteration of the retry loop.
Retry ==
    /\ Running
    /\ Top.pc = "retry"
    /\ ShouldRetry(Top)
    /\ \E r \in Replies(Top) :
        /\ stack' = SetTop([Top EXCEPT !.reply = r,
                                       !.attempted_retries = @ + 1])
        /\ log' = log \o <<SleepEvent(Backoff(Top.attempted_retries)),
                           [PostEvent(Top) EXCEPT !.attempt = @ + 1]>>
        /\ faults' = faults + (IF IsFault(r) THEN 1 ELSE 0)
        /\ exec' = Received(exec, r)
    /\ UNCHANGED <<result, args>>

\* Lines 119-130: the reply is final.
CheckReply ==
    /\ Running
    /\ Top.pc = "retry"
    /\ ~ShouldRetry(Top)
    /\ LET reply == Top.reply IN
       IF reply.status_code # 200
       THEN Raised("HTTPError", JInt(reply.status_code))
       ELSE IF HasErrors(reply.body)
       THEN Raised("GraphQLError", reply.body.m["errors"])
       ELSE IF ~Top.cursors.given
       THEN Returned(reply.body.m["data"])
       ELSE /\ stack' = SetTop([Top EXCEPT !.data = reply.body.m["data"],
                                           !.ci = 1, !.pc = "loop"])
            /\ result' = result
    /\ UNCHANGED <<log, faults, exec, args>>

\* ------------------------------------------------------------- depagination
\* Lines 133-136 and 175-178: a bare path list becomes {"path": list}.
Normalize(c) == [c EXCEPT !.short = FALSE]

CurrentPathOfFirst(f, c) == f.prev_path \o f.cursors.entries[1].path
\* Lines 137-139.
CurrentPath(f, c) == f.prev_path \o c.path

\* Whether obj is a dict holding key.
HasKey(obj, key) == obj.t = "map" /\ key \in DOMAIN obj.m

TruthyWhenPresent(v) == v.t = "bool"
\* The truth value of pi["hasNextPage"].
Truthy(v) == v.t = "bool" /\ v.b

ExtendInFront(nodes, more) == JList(more.l \o nodes.l)
\* Line 152: obj["nodes"].extend(next["nodes"])
Extend(nodes, more) == JList(nodes.l \o more.l)

\* Lines 155-156 and the end of one round of the element loop (188, 202):
\* on to element i, or past the loop to the next cursor of line 131.
ToElement(f, i) ==
    IF i < f.n THEN [f EXCEPT !.i = i, !.pc = "nested"]
    ELSE [f EXCEPT !.ci = @ + 1, !.pc = "loop"]

\* Lines 131-148: one cursor of the loop, up to the recursive call for the
\* next page or the start of the element loop.
VisitCursor ==
    /\ Running
    /\ Top.pc = "loop"
    /\ Top.ci <= Len(Top.cursors.entries)
    /\ \E f \in {Top} :
       \E c \in {Normalize(f.cursors.entries[f.ci])} :
       \E current_path \in {CurrentPath(f, c)} :
       \E obj \in {Walk(f.data, current_path)} :
       IF ~HasKey(obj, "pageInfo") \/ ~HasKey(obj.m["pageInfo"], "hasNextPage")
       THEN Raised("KeyError", JNull)
       ELSE \E pi \in {obj.m["pageInfo"]} :
            \E g \in {[f EXCEPT !.cursors.entries[f.ci] = c,
                                !.data = SetAt(f.data, current_path,
                                               DictPop(obj, "pageInfo")),
                                !.pi = pi]} :
            IF Truthy(pi.m["hasNextPage"])
            THEN IF ~HasKey(pi, "endCursor")
                 THEN Raised("KeyError", JNull)
                 ELSE LET kwargs == (c.name :> pi.m["endCursor"]) @@ f.kwargs IN
                      /\ stack' = Append(
                            SetTop([g EXCEPT !.kwargs = kwargs, !.pc = "merge"]),
                            Frame(Cursors(<<c>>), f.prev_path, kwargs))
                      /\ result' = result
            ELSE IF c.hasNext
            THEN IF ~HasKey(obj, "nodes") \/ obj.m["nodes"].t # "list"
                 THEN Raised("KeyError", JNull)
                 ELSE /\ stack' = SetTop(
                            ToElement([g EXCEPT !.n = Len(obj.m["nodes"].l)], 0))
                      /\ result' = result
            ELSE /\ stack' = SetTop([g EXCEPT !.ci = @ + 1])
                 /\ result' = result
    /\ UNCHANGED <<log, faults, exec, args>>

\* Lines 149-155: the recursive call for the next page has returned.
MergePage ==
    /\ Running
    /\ Top.pc = "merge"
    /\ \E f \in {Top} :
       \E current_path \in {CurrentPath(f, f.cursors.entries[f.ci])} :
       \E next \in {Walk(f.next, current_path)} :
       \E obj \in {Walk(f.data, current_path)} :
       IF ~HasKey(next, "nodes") \/ ~HasKey(obj, "nodes")
          \/ next.m["nodes"].t # "list" \/ obj.m["nodes"].t # "list"
       THEN Raised("KeyError", JNull)
       ELSE /\ stack' = SetTop(
                 [f EXCEPT !.data = SetAt(f.data, current_path,
                        DictSet(obj, "nodes", Extend(obj.m["nodes"], next.m["nodes"]))),
                           !.ci = @ + 1, !.pc = "loop"])
            /\ result' = result
    /\ UNCHANGED <<log, faults, exec, args>>

ElementPathOfNext(f, c, i) ==
    (IF f.prev_path = <<>> THEN CurrentPath(f, c) ELSE f.prev_path)
        \o <<Key("nodes"), Idx(i + 1)>>
\* Lines 157-162: where element i lives in data.
ElementPath(f, c, i) ==
    (IF f.prev_path = <<>> THEN CurrentPath(f, c) ELSE f.prev_path)
        \o <<Key("nodes"), Idx(i)>>

NestedNeverHasNextPage(node_data, nc) == JBool(FALSE)
\* Lines 179-183: one nested cursor's hasNextPage under node_data
\* (KeyError when the connection or its pageInfo is not there).
NestedHasNextPage(node_data, nc) ==
    LET page_to_check == Walk(node_data, nc.path) IN
    IF HasKey(page_to_check, "pageInfo")
       /\ HasKey(page_to_check.m["pageInfo"], "hasNextPage")
    THEN page_to_check.m["pageInfo"].m["hasNextPage"]
    ELSE KeyError

CallAlwaysRequired(node_data, nested) == TRUE
\* Lines 173-186: a nested cursor has another page or nested cursors of its own.
CallRequired(node_data, nested) ==
    \E k \in DOMAIN nested :
        \/ Truthy(NestedHasNextPage(node_data, nested[k]))
        \/ nested[k].hasNext

\* Lines 156-191: one element of the loop, up to `continue` or the recursive
\* call for its nested cursors.
NestedElement ==
    /\ Running
    /\ Top.pc = "nested"
    /\ \E f \in {Top} :
       \E c \in {f.cursors.entries[f.ci]} :
       \E current_path_nodes \in {ElementPath(f, c, f.i)} :
       \E node_data \in {Walk(f.data, current_path_nodes)} :
       \E nested \in {[k \in DOMAIN c.next |-> Normalize(c.next[k])]} :
       \E g \in {[f EXCEPT !.cursors.entries[f.ci].next = nested]} :
       IF \/ node_data.t = "KeyError"
          \/ \E k \in DOMAIN nested :
                NestedHasNextPage(node_data, nested[k]).t = "KeyError"
       THEN Raised("KeyError", JNull)
       ELSE IF ~CallRequired(node_data, nested)
       THEN /\ stack' = SetTop(ToElement(g, f.i + 1))
            /\ result' = result
       ELSE /\ stack' = Append(SetTop([g EXCEPT !.pc = "weld"]),
                               Frame(Cursors(nested), current_path_nodes, f.kwargs))
            /\ result' = result
    /\ UNCHANGED <<log, faults, exec, args>>

\* Lines 194-202 for the nested cursors k.. : data after the welds, or KeyError.
RECURSIVE WeldFrom(_, _, _, _, _)
WeldFrom(data, next, base, nested, k) ==
    IF k > Len(nested) THEN data
    ELSE LET join_path == base \o nested[k].path
             obj_nested == Walk(data, join_path)
             next_nested == Walk(next, join_path)
         IN
         IF obj_nested.t # "map" \/ ~HasKey(next_nested, "nodes")
         THEN KeyError
         ELSE WeldFrom(SetAt(data, join_path,
                             DictSet(obj_nested, "nodes", next_nested.m["nodes"])),
                       next, base, nested, k + 1)

\* Lines 193-202: the recursive call for element i has returned.
Weld ==
    /\ Running
    /\ Top.pc = "weld"
    /\ \E f \in {Top} :
       \E c \in {f.cursors.entries[f.ci]} :
       \E data \in {WeldFrom(f.data, f.next, ElementPath(f, c, f.i), c.next, 1)} :
       IF data.t = "KeyError"
       THEN Raised("KeyError", JNull)
       ELSE /\ stack' = SetTop(ToElement([f EXCEPT !.data = data], f.i + 1))
            /\ result' = result
    /\ UNCHANGED <<log, faults, exec, args>>

\* Line 203.
Return ==
    /\ Running
    /\ Top.pc = "loop"
    /\ Top.ci > Len(Top.cursors.entries)
    /\ Returned(Top.data)
    /\ UNCHANGED <<log, faults, exec, args>>

\* ------------------------------------------------------------- specification
Tokens == {NoToken, Token(<<>>), Token(<<"t">>)}
CursorTrees ==
    {NoCursors} \cup
    { Cursors(t) : t \in {TreeIssues, TreeSiblings, TreeSiblingsSwapped,
                          TreeNested, TreeExample, TreeDeep} }

\* The cursor variables a cursor tree names, at any depth.
RECURSIVE Names(_)
Names(entries) ==
    UNION { {entries[k].name} \cup Names(entries[k].next) : k \in DOMAIN entries }

\* The repositories enumerated with one cursors argument: a connection the
\* tree does not name holds one element (with cursors=None the issues vary),
\* there are MaxIssues issues when the tree also names nested cursors, and
\* a page of a nested connection is no longer than one of a top-level one
\* (as long when the tree names no nested cursor).
DatabasesFor(cs) ==
    { d \in Databases :
        /\ (cs.given /\ "cursor1" \notin Names(cs.entries)) => d.issues = 1
        /\ {"cursor1", "cursor3"} \subseteq Names(cs.entries) => d.issues = MaxIssues
        /\ "cursor2" \notin Names(cs.entries) => Len(d.prs) = 1
        /\ "cursor3" \notin Names(cs.entries) => \A p \in DOMAIN d.prs : d.prs[p] = 1
        /\ "cursor4" \notin Names(cs.entries) => d.comments = 1
        /\ d.inner <= d.first
        /\ "cursor3" \notin Names(cs.entries) => d.inner = d.first }

\* The calls that exercise the transport: every query, token and max_retries,
\* with no cursors or one connection.
TransportCalls ==
    { [query |-> q, token |-> t, max_retries |-> r, cursors |-> cs, db |-> d] :
        q \in Queries, t \in Tokens, r \in 0..MaxRetriesArg,
        cs \in {NoCursors, Cursors(TreeIssues)},
        d \in { e \in Databases : e.issues = MaxIssues /\ e.comments = 1
                                  /\ e.prs = <<1>> /\ e.inner = e.first
                                  /\ e.outage = MaxFaults } }

\* The calls that exercise depagination: every cursor tree and repository,
\* with the query of the header comment, one retry, and an endpoint that
\* gives one fault at most.
PagingCalls ==
    { [query |-> <<" ", "query", "(", "x", " ">>, token |-> t,
       max_retries |-> 1, cursors |-> cs.c, db |-> cs.d] :
        t \in Tokens,
        cs \in UNION { { [c |-> c, d |-> d] :
                            d \in { e \in DatabasesFor(c) : e.outage = 1 } } :
                       c \in CursorTrees } }

Init ==
    /\ \E call \in TransportCalls \cup PagingCalls :
        /\ query = call.query
        /\ token = call.token
        /\ max_retries = call.max_retries
        /\ cursors = call.cursors
        /\ db = call.db
    /\ stack = <<Frame(cursors, <<>>, <<>>)>>
    /\ result = [kind |-> "running", value |-> JNull]
    /\ log = <<>>
    /\ faults = 0
    /\ exec = [attempts |-> 0, leading |-> 0]

Next ==
    \/ Enter
    \/ Retry
    \/ CheckReply
    \/ VisitCursor
    \/ MergePage
    \/ NestedElement
    \/ Weld
    \/ Return

Spec == Init /\ [][Next]_vars
\* ------------------------------------------------------------- properties
Terminated == stack = <<>>
ReturnedData == result.kind = "returned"
\* The token is a non-empty string and no reply so far was a fault.
CleanRun == token.given /\ token.text # <<>> /\ faults = 0
PostsOf(l) == SelectSeq(l, LAMBDA ev : ev.e = "post")
SleepsOf(l) == SelectSeq(l, LAMBDA ev : ev.e = "sleep")

\* The pages of a connection of n elements as the endpoint serves them one
\* after the other: the page after offset `after`, then the page after that
\* page's endCursor, until a page has hasNextPage = false.
\* (elems: the elements of the connection, all of them).
RECURSIVE PagesFrom(_, _, _)
PagesFrom(elems, after, first) ==
    LET page == Connection(Len(elems), after, first,
                           SubSeq(elems, after + 1,
                                  after + PageLen(Len(elems), after, first)))
    IN
    IF page.m["pageInfo"].m["hasNextPage"].b
    THEN <<page>> \o PagesFrom(elems, page.m["pageInfo"].m["endCursor"].s, first)
    ELSE <<page>>
RECURSIVE ConcatNodes(_)
ConcatNodes(pages) ==
    IF pages = <<>> THEN <<>>
    ELSE Head(pages).m["nodes"].l \o ConcatNodes(Tail(pages))

IssuePages == PagesFrom([k \in 1..db.issues |-> IssueElem(k)], 0, db.first)

\* C1: with the one top-level connection `issues` (no `next`) served in P
\* pages and only clean 200 replies, graphql sends exactly P requests, the
\* first with the cursor unbound and the k-th with the cursor bound to the
\* endCursor of page k-1, and returns the connection with the nodes of page
\* 1, ..., page P in that order.
C1_SingleConnectionConcat ==
    (Terminated /\ CleanRun /\ cursors = Cursors(TreeIssues)) =>
        /\ ReturnedData
        /\ Len(log) = Len(IssuePages)
        /\ \A k \in DOMAIN log :
            /\ log[k].e = "post"
            /\ log[k].params.variables =
                 IF k = 1 THEN <<>>
                 ELSE [c \in {"cursor1"} |->
                         IssuePages[k - 1].m["pageInfo"].m["endCursor"]]
        /\ Walk(result.value, IssuesPath \o <<Key("nodes")>>)
             = JList(ConcatNodes(IssuePages))

\* C1 witness: a call that returned the issues of two pages, the first page
\* holding two issues.
C1_Witness ==
    /\ Terminated /\ CleanRun /\ ReturnedData
    /\ cursors = Cursors(TreeIssues)
    /\ Len(IssuePages) = 2
    /\ Len(IssuePages[1].m["nodes"].l) = 2
    /\ Len(log) = 2

\* Whether no connection that `entries` names under root, at any depth, still
\* has a pageInfo key.
RECURSIVE NoPageInfo(_, _)
NoPageInfo(root, entries) ==
    \A k \in DOMAIN entries :
        LET conn == Walk(root, entries[k].path) IN
        conn.t = "map" =>
            /\ "pageInfo" \notin DOMAIN conn.m
            /\ HasKey(conn, "nodes") =>
                 \A j \in DOMAIN conn.m["nodes"].l :
                     NoPageInfo(conn.m["nodes"].l[j], entries[k].next)

\* C2: when graphql returns, no connection the cursor tree names, top-level
\* or nested inside an element of its parent's nodes, still has pageInfo.
C2_NoPageInfoLeft ==
    (Terminated /\ ReturnedData /\ cursors.given) =>
        NoPageInfo(result.value, cursors.entries)

PullRequestPages ==
    PagesFrom([p \in 1..Len(db.prs) |-> PullRequestElem(db, <<>>, p)], 0, db.first)
\* Every timeline item of pull request p, as served with cursor4 unbound.
TimelineNodes(p) ==
    ConcatNodes(PagesFrom([j \in 1..db.prs[p] |-> TimelineElem(db, <<>>, p, j)],
                          0, db.inner))
TimelineNodesPath(p) ==
    PullRequestsPath \o <<Key("nodes"), Idx(p - 1), Key("timelineItems"), Key("nodes")>>
NamesTimeline == cursors \in {Cursors(TreeNested), Cursors(TreeExample)}

\* C3: when the pull requests (whose cursor node has `next`) come in two or
\* more pages, every pull request of every page is returned with all the
\* pages of its timeline items.
C3_EveryPageElementDepaginated ==
    (Terminated /\ CleanRun /\ ReturnedData /\ NamesTimeline
        /\ Len(PullRequestPages) >= 2) =>
        \A p \in DOMAIN db.prs :
            Walk(result.value, TimelineNodesPath(p)) = JList(TimelineNodes(p))

\* The endpoint serves every connection in one page.
SinglePaged ==
    /\ db.issues <= db.first
    /\ Len(db.prs) <= db.first
    /\ \A p \in DOMAIN db.prs : db.prs[p] <= db.inner
    /\ db.comments <= db.inner
\* No nested cursor node has a `next` of its own.
DepthAtMostTwo ==
    \A k \in DOMAIN cursors.entries :
        \A j \in DOMAIN cursors.entries[k].next : ~cursors.entries[k].next[j].hasNext

CommentNodes(p, j) ==
    ConcatNodes(PagesFrom([k \in 1..db.comments |-> CommentElem(p, j, k)], 0, db.inner))
CommentNodesPath(p, j) ==
    PullRequestsPath \o <<Key("nodes"), Idx(p - 1), Key("timelineItems"),
                          Key("nodes"), Idx(j - 1), Key("comments"), Key("nodes")>>

\* C5: with the tree of depth three (pull requests, their timeline items,
\* their comments) and some pull request with a timeline item, graphql
\* returns and every comments connection holds all of its pages.
C5_DepthThreeWorks ==
    (Terminated /\ CleanRun /\ cursors = Cursors(TreeDeep)
        /\ \E p \in DOMAIN db.prs : db.prs[p] > 0) =>
        /\ ReturnedData
        /\ \A p \in DOMAIN db.prs : \A j \in 1..db.prs[p] :
             Walk(result.value, CommentNodesPath(p, j)) = JList(CommentNodes(p, j))

\* The trimmed query text starts with `mutation(`, `mutation ` or `mutation{`.
MutationText ==
    LET text == Strip(query) IN
    Len(text) >= 2 /\ text[1] = "mutation" /\ text[2] \in {"(", " ", "{"}
\* The trimmed query text does not start with the word mutation.
NotAMutation ==
    LET text == Strip(query) IN text = <<>> \/ text[1] # "mutation"

\* C6: a query whose trimmed text starts with `mutation(`, `mutation ` or
\* `mutation{` is never retried: every POST is a first attempt and there is
\* no sleep, whatever the status and max_retries.
C6_MutationNeverRetried ==
    MutationText =>
        \A k \in DOMAIN log : log[k].e = "post" /\ log[k].attempt = 0

\* The transport execution that sent the latest POST has its final reply.
ExecutionOver == log # <<>> /\ ~(Running /\ Top.pc = "retry")
\* The POSTs of the latest execution: those from its first attempt on.
LatestAttempts ==
    LET first == CHOOSE i \in DOMAIN log :
                    /\ log[i].e = "post" /\ log[i].attempt = 0
                    /\ \A j \in (i + 1)..Len(log) :
                         ~(log[j].e = "post" /\ log[j].attempt = 0)
    IN Cardinality({ j \in first..Len(log) : log[j].e = "post" })

\* C7: one transport execution of a query that is no mutation makes
\* 1 + min(max_retries, L) attempts, L being the number of replies with a
\* status in {403, 429, 500, 502, 503, 504} before the first other reply:
\* never more than max_retries + 1, and one attempt when max_retries = 0.
C7_AttemptCount ==
    (NotAMutation /\ log # <<>>) =>
        /\ LatestAttempts = exec.attempts
        /\ LatestAttempts <= max_retries + 1
        /\ LatestAttempts <= 1 + Min(max_retries, exec.leading)
        /\ ExecutionOver => LatestAttempts = 1 + Min(max_retries, exec.leading)

\* C7 witness: with max_retries = 3, two retryable replies and then another
\* one ended an execution after three attempts.
C7_Witness ==
    /\ NotAMutation /\ ExecutionOver
    /\ max_retries = 3 /\ exec.leading = 2
    /\ LatestAttempts = 3

RECURSIVE SumBackoff(_)
SumBackoff(l) ==
    IF l = <<>> THEN 0
    ELSE (IF Head(l).e = "sleep" THEN Head(l).backoff ELSE 0) + SumBackoff(Tail(l))

\* C8: a sleep comes right before every retry and never before a first
\* attempt, and the sleep before retry number k = 0, 1, 2, ... lasts 2^(k-1)
\* seconds (2^k half seconds); after three retryable replies and a clean 200
\* there were 4 attempts, 3.5 seconds of sleep, and the 200's data is returned.
C8_BackoffSchedule ==
    /\ \A k \in DOMAIN log :
        /\ log[k].e = "sleep" =>
             /\ k < Len(log) /\ log[k + 1].e = "post" /\ log[k + 1].attempt >= 1
             /\ log[k].backoff = 2 ^ (log[k + 1].attempt - 1)
        /\ (log[k].e = "post" /\ log[k].attempt >= 1) =>
             (k > 1 /\ log[k - 1].e = "sleep")
        /\ (log[k].e = "post" /\ log[k].attempt = 0) =>
             (k = 1 \/ log[k - 1].e = "post")
    /\ (Terminated /\ ReturnedData /\ ~cursors.given /\ exec.leading = 3) =>
        /\ Len(PostsOf(log)) = 4
        /\ SumBackoff(log) = 7
        /\ result.value = ServerData(db, <<>>)

\* C8 witness: a call without cursors returned after three retries.
C8_Witness ==
    /\ Terminated /\ ReturnedData /\ ~cursors.given
    /\ exec.leading = 3
    /\ Len(SleepsOf(log)) = 3

\* The token is None or the empty string.
MissingToken == token = NoToken \/ token = Token(<<>>)

\* C9: with the token None or empty, graphql raises TokenError, and no POST
\* and no sleep has happened, whatever the query, cursors and max_retries.
C9_MissingTokenRaisesFirst ==
    MissingToken =>
        /\ log = <<>>
        /\ result.kind \in {"running", "TokenError"}
        /\ Terminated <=> result.kind = "TokenError"

\* C9 witness: a call with the empty token and a nested cursor tree raised.
C9_Witness ==
    /\ token = Token(<<>>)
    /\ cursors = Cursors(TreeNested)
    /\ Terminated /\ result.kind = "TokenError"

\* The running frame holds a 200 reply whose body has `errors`.
ErrorsReply ==
    /\ Running /\ Top.pc = "retry"
    /\ Top.reply.status_code = 200
    /\ "errors" \in DOMAIN Top.reply.body.m

\* C10: a 200 reply whose body has `errors`, with `data` null or populated,
\* with or without cursors, makes the call raise GraphQLError with that
\* errors array at once: nothing is depaginated and no request follows.
C10_ErrorsTakePrecedence ==
    /\ [][ErrorsReply =>
            /\ stack' = <<>>
            /\ result' = [kind |-> "GraphQLError", value |-> Top.reply.body.m["errors"]]
            /\ log' = log]_vars
    /\ [][~Terminated]_vars

\* C10 witness: a call with cursors raised GraphQLError on a follow-up request.
C10_Witness ==
    /\ Terminated /\ result = [kind |-> "GraphQLError", value |-> ErrorsArray]
    /\ cursors.given
    /\ Len(log) >= 2

\* C11: with cursors None and only clean 200 replies, graphql sends exactly
\* one request, with no cursor bound, and returns the reply's data as it
\* came: every pageInfo is still there, no nodes list has grown, and no
\* request follows even when a connection says hasNextPage = true.
C11_NoCursorsUnchanged ==
    (Terminated /\ CleanRun /\ ~cursors.given) =>
        /\ ReturnedData
        /\ result.value = ServerData(db, <<>>)
        /\ Len(log) = 1
        /\ log[1].e = "post" /\ log[1].params.variables = <<>>

\* C11 witness: a call without cursors returned the first page of the issues,
\* whose pageInfo says there is another page.
C11_Witness ==
    /\ Terminated /\ CleanRun /\ ~cursors.given /\ ReturnedData
    /\ Walk(result.value, IssuesPath \o <<Key("pageInfo"), Key("hasNextPage")>>)
         = JBool(TRUE)
    /\ Len(Walk(result.value, IssuesPath \o <<Key("nodes")>>).l) = db.first
    /\ Len(log) = 1

\* The running frame holds the final reply of a request, and it is a fault:
\* a status other than 200, or a 200 whose body has `errors`.
FinalFault ==
    /\ Running /\ Top.pc = "retry" /\ ~ShouldRetry(Top)
    /\ IsFault(Top.reply)
\* The error a final fault makes graphql raise.
ErrorOf(reply) ==
    IF reply.status_code # 200
    THEN [kind |-> "HTTPError", value |-> JInt(reply.status_code)]
    ELSE [kind |-> "GraphQLError", value |-> reply.body.m["errors"]]

\* The first half of C12: a request, first or follow-up, whose final reply
\* is a fault makes the top-level call raise that error at once, with no
\* data and no request after it.
ErrorsPropagate ==
    [][FinalFault =>
          /\ stack' = <<>>
          /\ result' = ErrorOf(Top.reply)
          /\ log' = log]_vars
\* The second half of C12: a call that ends without a failed request (and
\* with a token) ends by returning data.
OtherwiseReturns ==
    [][(Running /\ TokenOk /\ ~FinalFault /\ stack' = <<>>) =>
          result'.kind = "returned"]_vars

\* C12: a top-level call is all-or-nothing: a follow-up request whose final
\* reply is a transport error or a GraphQL error makes the top-level call
\* raise that same error, return no data and send nothing more; otherwise
\* the call returns one merged data tree.
C12_AllOrNothing == ErrorsPropagate /\ OtherwiseReturns

\* The element loop is about to check element Top.i, and the element and the
\* nested connections under it are there with their pageInfo.
AtElement ==
    /\ Running /\ Top.pc = "nested"
    /\ LET c == Top.cursors.entries[Top.ci]
           elem == Walk(Top.data, ElementPath(Top, c, Top.i))
       IN \A k \in DOMAIN c.next :
            Walk(elem, c.next[k].path \o <<Key("pageInfo"), Key("hasNextPage")>>).t
                = "bool"
\* Some nested connection of the element has another page, or some nested
\* cursor node has a `next` of its own.
ElementNeedsCall ==
    LET c == Top.cursors.entries[Top.ci]
        elem == Walk(Top.data, ElementPath(Top, c, Top.i))
    IN \E k \in DOMAIN c.next :
        \/ Walk(elem, c.next[k].path \o <<Key("pageInfo"), Key("hasNextPage")>>)
             = JBool(TRUE)
        \/ c.next[k].hasNext
\* The frame one below the running one.
Caller == stack[Len(stack) - 1]

\* C13: for element i of the element loop (the connection is fully paged,
\* its cursor node has `next`), an element-level recursive call is made, and
\* its request sent, if and only if a nested connection of the element has
\* hasNextPage = true or a nested cursor node has its own `next`; otherwise
\* no request is made for the element, the data stays as it is, and the loop
\* goes on to the next element.
C13_CallNecessity ==
    /\ [][AtElement =>
            IF ElementNeedsCall
            THEN /\ Len(stack') = Len(stack) + 1
                 /\ stack'[Len(stack)].pc = "weld"
                 /\ stack'[Len(stack')].pc = "start"
                 /\ stack'[Len(stack')].cursors.entries
                      = [k \in DOMAIN Top.cursors.entries[Top.ci].next |->
                            Normalize(Top.cursors.entries[Top.ci].next[k])]
            ELSE /\ Len(stack') = Len(stack)
                 /\ stack'[Len(stack)].data = Top.data
                 /\ stack'[Len(stack)].pc \in {"nested", "loop"}
                 /\ (stack'[Len(stack)].pc = "nested"
                        => stack'[Len(stack)].i = Top.i + 1)
                 /\ log' = log]_vars
    /\ [][(Len(stack) > 1 /\ Top.pc = "start" /\ Caller.pc = "weld") =>
            /\ log' = Append(log, [e |-> "post", attempt |-> 0,
                                   params |-> [query |-> Strip(query),
                                               variables |-> Caller.kwargs]])]_vars

\* C13 witness: with the one pull request holding two timeline items served
\* one a page, the call returned after three requests: the first, the
\* element-level one for the pull request, and the one for the second page
\* of its timeline items.
C13_Witness ==
    /\ Terminated /\ ReturnedData /\ CleanRun
    /\ cursors = Cursors(TreeNested)
    /\ db.prs = <<2>> /\ db.first = 1
    /\ Len(log) = 3
    /\ log[2].params.variables = <<>>
    /\ log[3].params.variables = [c \in {"cursor3"} |-> JStr(1)]

\* A connection as it is returned once depaginated: the nodes of all of its
\* pages, and no pageInfo.
Merged(pages) == JMap([nodes |-> JList(ConcatNodes(pages))])
\* The data a call with the two sibling cursors is to return.
SiblingsMerged ==
    JMap([repository |-> JMap([issues |-> Merged(IssuePages),
                               pullRequests |-> Merged(PullRequestPages)])])
TwoSiblings == cursors \in {Cursors(TreeSiblings), Cursors(TreeSiblingsSwapped)}

\* C14: with the two top-level cursors cursor1 and cursor2, served in P1 and
\* P2 pages, the call returns each connection with the nodes of its own
\* pages in order, whatever the other connection's pages are, and what it
\* returns is the same for either iteration order of the two names; it
\* sends one request and one more for every further page of either.
C14_SiblingsIndependent ==
    (Terminated /\ CleanRun /\ TwoSiblings) =>
        /\ ReturnedData
        /\ result.value = SiblingsMerged
        /\ Len(log) = 1 + (Len(IssuePages) - 1) + (Len(PullRequestPages) - 1)

\* C14 witness: the call that iterates cursor2 before cursor1 returned with
\* three pages of issues and two pages of pull requests merged.
C14_Witness ==
    /\ Terminated /\ CleanRun /\ ReturnedData
    /\ cursors = Cursors(TreeSiblingsSwapped)
    /\ Len(IssuePages) = 3 /\ Len(PullRequestPages) = 2
    /\ Len(Walk(result.value, IssuesPath \o <<Key("nodes")>>).l) = 3
    /\ Len(Walk(result.value, PullRequestsPath \o <<Key("nodes")>>).l) = 2

\* The text of the query before its first "(" (all of it when there is none)
\* is exactly the word mutation.
ExemptFromRetries ==
    LET parens == { i \in DOMAIN query : query[i] = "(" }
        upto == IF parens = {} THEN Len(query)
                ELSE (CHOOSE i \in parens : \A j \in parens : i <= j) - 1
    IN SubSeq(query, 1, upto) = <<"mutation">>
\* The running frame holds a reply with a retryable status and has retries left.
RetryableReply ==
    /\ Running /\ Top.pc = "retry"
    /\ Top.reply.status_code \in Retryable
    /\ Top.attempted_retries < max_retries

Welding == { k \in 1..(Len(stack) - 1) : stack[k].pc = "weld" }

\* C16: an element-level recursive call for element i of an outer connection
\* carries, in all of its requests, the outer cursor as the calling frame
\* has it: unbound when the element came on the first page, the endCursor of
\* the page before otherwise; so index i of the outer connection in the
\* reply to it is the same element, the one whose nested nodes get replaced.
C16_ElementRequestKeepsOuterBinding ==
    /\ \A k \in Welding :
        LET f == stack[k]
            g == stack[k + 1]
            c == f.cursors.entries[f.ci]
            elem == Walk(f.data, g.prev_path)
            again == Walk(ServerData(db, g.kwargs), g.prev_path)
        IN /\ g.prev_path = f.prev_path \o c.path \o <<Key("nodes"), Idx(f.i)>>
           /\ (c.name \in DOMAIN g.kwargs) = (c.name \in DOMAIN f.kwargs)
           /\ (c.name \in DOMAIN f.kwargs) => g.kwargs[c.name] = f.kwargs[c.name]
           /\ (c.name \in DOMAIN f.kwargs) = (After(f.kwargs, c.name) > 0)
           /\ elem.t = "map" /\ again.t = "map"
           /\ elem.m["number"] = JInt(After(f.kwargs, c.name) + f.i + 1)
           /\ again.m["number"] = elem.m["number"]
    /\ (Running /\ Top.pc = "retry") =>
        log[Len(log)].params.variables = Top.kwargs

\* C16 witness: the element-level request for the pull request that came on
\* the second page has been sent with cursor2 bound to the endCursor of the
\* first page.
C16_Witness ==
    /\ Len(stack) = 3
    /\ stack[1].pc = "merge" /\ stack[2].pc = "weld" /\ stack[3].pc = "retry"
    /\ stack[2].i = 0
    /\ "cursor2" \in DOMAIN stack[3].kwargs
    /\ stack[3].kwargs["cursor2"] = PullRequestPages[1].m["pageInfo"].m["endCursor"]
    /\ log[Len(log)].params.variables = stack[3].kwargs
    /\ stack[3].reply = CleanReply(db, stack[3].kwargs)

\* The cursor variables of the nested cursor nodes of the cursor the running
\* frame is at.
NestedNames ==
    LET c == Top.cursors.entries[Top.ci] IN { c.next[k].name : k \in DOMAIN c.next }
\* The running frame is in its element loop.
InElementLoop == Running /\ Top.pc \in {"nested", "weld"}
\* The running frame is an element-level recursive call about to send its
\* first request.
ElementCallStarts == Len(stack) > 1 /\ Top.pc = "start" /\ Caller.pc = "weld"

\* C17: a cursor binding set inside a recursive call does not reach the
\* calling frame.  A return leaves the caller's bindings as they were; a
\* frame in its element loop keeps its bindings, in which the nested cursor
\* variables are unbound; and the first request of every element-level call
\* carries exactly the bindings of the calling frame, so the one for element
\* i+1 has the same bindings as the one for element i.  A binding a frame
\* set for one cursor stays in the frame while it visits the other cursors.
C17_BindingsStayInFrame ==
    /\ [][(Len(stack) > 1 /\ Len(stack') = Len(stack) - 1) =>
            stack'[Len(stack')].kwargs = Caller.kwargs]_vars
    /\ [][(InElementLoop /\ Len(stack') >= Len(stack)) =>
            /\ stack'[Len(stack)].kwargs = Top.kwargs
            /\ NestedNames \cap DOMAIN Top.kwargs = {}]_vars
    /\ [][ElementCallStarts =>
            /\ Top.kwargs = Caller.kwargs
            /\ log' = Append(log, [e |-> "post", attempt |-> 0,
                                   params |-> [query |-> Strip(query),
                                               variables |-> Caller.kwargs]])]_vars
    /\ [][\A k \in 1..Min(Len(stack), Len(stack')) :
            \A name \in DOMAIN stack[k].kwargs :
                /\ name \in DOMAIN stack'[k].kwargs
                /\ \/ stack'[k].kwargs[name] = stack[k].kwargs[name]
                   \/ /\ k = Len(stack) /\ Top.pc = "loop"
                      /\ Top.ci <= Len(Top.cursors.entries)
                      /\ name = Top.cursors.entries[Top.ci].name]_vars

\* C17 witness: two pull requests came on one page, each with two timeline
\* items served one a page; the call returned after five requests, the
\* element-level call of each pull request starting with cursor3 unbound
\* and going on with cursor3 bound.
C17_Witness ==
    /\ Terminated /\ ReturnedData /\ CleanRun
    /\ cursors = Cursors(TreeNested)
    /\ db.prs = <<2, 2>> /\ db.first = 2 /\ db.inner = 1
    /\ [k \in DOMAIN log |-> log[k].params.variables]
         = << <<>>, <<>>, [c \in {"cursor3"} |-> JStr(1)],
              <<>>, [c \in {"cursor3"} |-> JStr(1)] >>

\* The calls of Init with a cursor tree of depth two at most, to a repository
\* whose pull requests that have timeline items have equally many.
FairInit ==
    /\ Init
    /\ DepthAtMostTwo
    /\ \E k \in 0..MaxItems : \A p \in DOMAIN db.prs : db.prs[p] \in {0, k}

\* graphql runs on one thread and blocks on every request: a step that can
\* be taken is taken.
FairSpec == FairInit /\ [][Next]_vars /\ WF_vars(Next)

\* The running frame is at a cursor of its loop whose connection is in data
\* with its pageInfo.
AtConnection ==
    /\ Running /\ Top.pc = "loop" /\ Top.ci <= Len(Top.cursors.entries)
    /\ LET c == Top.cursors.entries[Top.ci] IN
       Walk(Top.data, Top.prev_path \o c.path
                        \o <<Key("pageInfo"), Key("hasNextPage")>>).t = "bool"
ConnectionHasNextPage ==
    LET c == Top.cursors.entries[Top.ci] IN
    Walk(Top.data, Top.prev_path \o c.path
                     \o <<Key("pageInfo"), Key("hasNextPage")>>) = JBool(TRUE)

\* C18: with a cursor tree of depth two at most, connections of finitely
\* many pages and requests that end (a final status, or max_retries used
\* up), a top-level call returns or raises in the end; and the recursion
\* for a connection goes on exactly while the page at hand says
\* hasNextPage = true: it stops at the first page that says false.
C18_Terminates ==
    /\ DepthAtMostTwo => <>Terminated
    /\ [][AtConnection =>
            IF ConnectionHasNextPage
            THEN /\ Len(stack') = Len(stack) + 1
                 /\ stack'[Len(stack)].pc = "merge"
                 /\ stack'[Len(stack')].pc = "start"
            ELSE Len(stack') <= Len(stack)]_vars

\* C18 witness: the call with the cursors of the header comment returned
\* after the two pages of the issues were fetched and, for each of the two
\* pull requests, the two pages of its timeline items.
C18_Witness ==
    /\ Terminated /\ ReturnedData /\ CleanRun
    /\ cursors = Cursors(TreeExample)
    /\ Len(IssuePages) = 2
    /\ db.prs = <<2, 2>> /\ db.first = 2 /\ db.inner = 1
    /\ Len(log) = 6

\* The logical requests so far: the POSTs that are a first attempt.
LogicalRequests == Cardinality({ k \in DOMAIN log : log[k].e = "post" /\ log[k].attempt = 0 })
\* The retries made so far by the request the running frame is at.
OwnRetries == LatestAttempts - 1

\* C19: the retry budget is per request.  Every request, first or follow-up,
\* starts with its retry counter at 0; a request that got a retryable
\* status and has made fewer than max_retries retries itself is retried,
\* whatever the requests before it used up, and its first backoff is 2^(-1)
\* seconds (1 half second); so R logical requests make at most
\* R * (max_retries + 1) attempts.
C19_RetryBudgetPerRequest ==
    /\ [](/\ Len(PostsOf(log)) <= LogicalRequests * (max_retries + 1)
          /\ \A k \in DOMAIN log :
               log[k].e = "post" =>
                 /\ log[k].attempt <= max_retries
                 /\ (log[k].attempt = 0 /\ k < Len(log) /\ log[k + 1].e = "sleep")
                       => log[k + 1].backoff = 1
          /\ (Running /\ Top.pc = "retry") => Top.attempted_retries = OwnRetries)
    /\ [][(Running /\ Top.pc = "start" /\ TokenOk) =>
            /\ Len(log') = Len(log) + 1
            /\ log'[Len(log')].e = "post" /\ log'[Len(log')].attempt = 0
            /\ stack'[Len(stack)].attempted_retries = 0]_vars
    /\ [][(/\ Running /\ Top.pc = "retry" /\ ~ExemptFromRetries
           /\ Top.reply.status_code \in Retryable
           /\ OwnRetries < max_retries) =>
            log' = log \o <<[e |-> "sleep", backoff |-> 2 ^ OwnRetries],
                            [e |-> "post", attempt |-> OwnRetries + 1,
                             params |-> [query |-> Strip(query),
                                         variables |-> Top.kwargs]]>>]_vars

\* C19 witness: with max_retries = 1, the first request and the request for
\* the second page of the issues were both retried once, each after half a
\* second: four attempts in a call that could make two had the budget been
\* the call's.
C19_Witness ==
    /\ max_retries = 1
    /\ cursors = Cursors(TreeIssues)
    /\ Len(log) = 6
    /\ [k \in DOMAIN log |-> log[k].e]
         = <<"post", "sleep", "post", "post", "sleep", "post">>
    /\ log[2].backoff = 1 /\ log[5].backoff = 1
    /\ log[4].attempt = 0 /\ log[6].attempt = 1
    /\ "cursor1" \in DOMAIN log[6].params.variables
====
